---- MODULE Spec2Model ----
(***************************************************************************)
(* State-machine model of api_yamdb/api/views.py: the signup / token flow, *)
(* the self-service user endpoint, and the Title / Review / Comment        *)
(* viewsets.  Every view is an operator from the request (and the current  *)
(* store) to its outcome: the response and the store after it.  An action  *)
(* draws a request, applies the view and commits the outcome.              *)
(*                                                                         *)
(* Library behaviour is modelled by what it does: get_object_or_404,       *)
(* Django's default_token_generator (a keyed hash over the user's primary  *)
(* key, e-mail and the issue time, valid for a limited time), send_mail    *)
(* with fail_silently=False (raises when the message cannot be sent), and  *)
(* rest_framework's request cycle (view permissions, then the handler;     *)
(* get_object = get_queryset, lookup, object permissions; create =         *)
(* is_valid, perform_create).  Serializers, permission classes and models  *)
(* of the repository are outside views.py and follow the specification.    *)
(***************************************************************************)
EXTENDS Integers, FiniteSets, Sequences, TLC

VARIABLES
  users,        \* User table: username -> [email, role, is_active]
  holders,      \* usernames that hold a bearer access token
  outbox,       \* messages handed to send_mail: [to, code]
  accepted,     \* history: the <<username, code>> pairs TokenViewSet accepted, in order
  now,          \* clock, in token-timeout units
  titles,       \* ids of the stored Title rows
  nextTitle,    \* next Title primary key
  reviews,      \* Review rows: [id, title, author, score]
  nextReview,   \* next Review primary key
  comments,     \* Comment rows: [id, review, author, text]
  nextComment,  \* next Comment primary key
  pending,      \* create-review requests that passed is_valid and have not saved yet
  resp          \* the last response: [op, status]

authVars == <<users, holders, outbox, accepted, now>>
contentVars == <<titles, nextTitle, reviews, nextReview, comments, nextComment>>
vars == <<users, holders, outbox, accepted, now, titles, nextTitle, reviews,
          nextReview, comments, nextComment, pending, resp>>

----------------------------------------------------------------------------
(* Bounds of the model *)

MaxTime == 2
TokenTimeout == 1
MaxAccepted == 2
MaxTitles == 2
MaxReviews == 2
MaxComments == 1
MaxPending == 2

----------------------------------------------------------------------------
(* Values *)

Absent == "absent"
Anon == "anon"
Usernames == {"admin", "alice"}
Emails == {"a@x", "b@x"}
Roles == {"user", "moderator", "admin"}
Requesters == Usernames \cup {Anon}

GarbageCode == [uid |-> "garbage", email |-> Absent, ts |-> 0]
AbsentCode == [uid |-> Absent, email |-> Absent, ts |-> 0]
Codes == [uid : Usernames, email : Emails, ts : 0..MaxTime] \cup {GarbageCode}

NoToken == [sub |-> "none"]

Resp(op, status) == [op |-> op, status |-> status]

----------------------------------------------------------------------------
(* default_token_generator and send_confirmation_code *)

\* default_token_generator.make_token(user): a keyed hash of the user's key, of the
\* fields that change when the account does (here the e-mail; password and
\* last_login are never written by these views) and of the time of issue
make_token(username, email) == [uid |-> username, email |-> email, ts |-> now]

\* default_token_generator.check_token(user, token): the hash recomputed from the
\* user's current state matches, and the token is not older than the timeout
check_token(username, code) ==
  /\ code.uid = username
  /\ code.email = users[username].email
  /\ code.ts <= now
  /\ now - code.ts <= TokenTimeout

\* send_confirmation_code with fail_silently=True: a failed send returns quietly
send_confirmation_code_silent(table, username, mailOk) ==
  [raised |-> FALSE,
   outbox |-> IF mailOk
              THEN outbox \cup {[to |-> table[username].email,
                                 code |-> make_token(username,
                                                     table[username].email)]}
              ELSE outbox]

\* send_confirmation_code(user): the code is made for the saved user and mailed to
\* [user.email]; send_mail(..., fail_silently=False) raises when it cannot send
send_confirmation_code(table, username, mailOk) ==
  [raised |-> ~mailOk,
   outbox |-> IF mailOk
              THEN outbox \cup {[to |-> table[username].email,
                                 code |-> make_token(username,
                                                     table[username].email)]}
              ELSE outbox]

----------------------------------------------------------------------------
(* SignUpVeiwSet *)

SignUpRequests == [username : Usernames \cup {Absent}, email : Emails \cup {Absent}]

\* SignUpSerializer.is_valid: both fields present, the username not taken
SignUpSerializerValid(req) ==
  /\ req.username # Absent
  /\ req.email # Absent
  /\ req.username \notin DOMAIN users

\* SignUpSerializer.save(): a new active user with the default role
SignUpSerializerSave(req) ==
  [u \in DOMAIN users \cup {req.username} |->
     IF u = req.username
     THEN [email |-> req.email, role |-> "user", is_active |-> TRUE]
     ELSE users[u]]

\* the cleanup as `not user or user.is_active`
CleanupCondLoose(truthy, is_active) == (~truthy) \/ is_active

\* `not user and user.is_active`: Python parses it as (not user) and user.is_active
CleanupCond(truthy, is_active) == (~truthy) /\ is_active

\* SignUpVeiwSet.post; events lists what the request did, in order.  The view opens
\* no transaction, so the row written by save() stays when send_mail raises
SignUpPost(req, mailOk) ==
  IF ~SignUpSerializerValid(req)
  THEN [status |-> 400, users |-> users, outbox |-> outbox, events |-> <<>>]
  ELSE LET saved == SignUpSerializerSave(req)
           sent == send_confirmation_code(saved, req.username, mailOk)
       IN IF sent.raised
          THEN [status |-> 500, users |-> saved, outbox |-> sent.outbox,
                events |-> <<"save">>]
          ELSE IF CleanupCond(TRUE, saved[req.username].is_active)
               THEN [status |-> 200,
                     users |-> [u \in DOMAIN saved \ {req.username} |-> saved[u]],
                     outbox |-> sent.outbox,
                     events |-> <<"save", "send", "delete">>]
               ELSE [status |-> 200, users |-> saved, outbox |-> sent.outbox,
                     events |-> <<"save", "send">>]

----------------------------------------------------------------------------
(* TokenViewSet *)

TokenRequests == [username : Usernames \cup {Absent},
                  confirmation_code : Codes \cup {AbsentCode}]

\* TokenSerializer.is_valid: both fields present
TokenSerializerValid(req) ==
  req.username # Absent /\ req.confirmation_code # AbsentCode

\* TokenViewSet.post without the check_token test
TokenPostUnchecked(req) ==
  IF ~TokenSerializerValid(req) THEN [status |-> 400, token |-> NoToken]
  ELSE IF req.username \notin DOMAIN users THEN [status |-> 404, token |-> NoToken]
  ELSE [status |-> 200, token |-> [sub |-> req.username]]

\* TokenViewSet.post
TokenPost(req) ==
  IF ~TokenSerializerValid(req) THEN [status |-> 400, token |-> NoToken]
  ELSE IF req.username \notin DOMAIN users THEN [status |-> 404, token |-> NoToken]
  ELSE IF ~check_token(req.username, req.confirmation_code)
       THEN [status |-> 400, token |-> NoToken]
       ELSE [status |-> 200, token |-> [sub |-> req.username]]

----------------------------------------------------------------------------
(* UserViewSet *)

UserPayloads == [role : Roles \cup {Absent, "bogus"}, email : Emails \cup {Absent}]

\* IsAuthenticated: the request carries a valid bearer token of a stored user
IsAuthenticated(user) == user \in holders /\ user \in DOMAIN users

\* IsAdmin
IsAdmin(user) == IsAuthenticated(user) /\ users[user].role = "admin"

\* UserSerializer.is_valid(partial=True): role, when given, is one of the choices
UserSerializerValid(payload) == payload.role \in Roles \cup {Absent}

\* serializer.save() without the role keyword: the payload's role is written
MeSavedRolePayload(instanceRole, payload) ==
  IF payload.role # Absent THEN payload.role ELSE instanceRole

\* serializer.save(role=instance.role, ...): the keyword overrides validated_data
MeSavedRole(instanceRole, payload) == instanceRole

\* ModelSerializer.update + instance.save() on one row
UserUpdate(user, payload, role) ==
  [users EXCEPT ![user] =
     [email |-> IF payload.email # Absent THEN payload.email ELSE @.email,
      role |-> role,
      is_active |-> @.is_active]]

\* UserViewSet.me
Me(method, user, payload) ==
  IF ~IsAuthenticated(user) THEN [status |-> 401, users |-> users]
  ELSE IF method = "GET" THEN [status |-> 200, users |-> users]
  ELSE IF ~UserSerializerValid(payload) THEN [status |-> 400, users |-> users]
  ELSE [status |-> 200,
        users |-> UserUpdate(user, payload, MeSavedRole(users[user].role, payload))]

\* UserViewSet.partial_update (lookup_field = username), admins only
UserPartialUpdate(user, target, payload) ==
  IF ~IsAuthenticated(user) THEN [status |-> 401, users |-> users]
  ELSE IF ~IsAdmin(user) THEN [status |-> 403, users |-> users]
  ELSE IF target \notin DOMAIN users THEN [status |-> 404, users |-> users]
  ELSE IF ~UserSerializerValid(payload) THEN [status |-> 400, users |-> users]
  ELSE [status |-> 200,
        users |-> UserUpdate(target, payload,
                    IF payload.role # Absent THEN payload.role ELSE users[target].role)]

----------------------------------------------------------------------------
(* Actions of the account flow *)

SignUp ==
  \E req \in SignUpRequests, mailOk \in BOOLEAN :
    LET out == SignUpPost(req, mailOk) IN
      /\ users' = out.users
      /\ outbox' = out.outbox
      /\ resp' = Resp("SignUp", out.status)
      /\ UNCHANGED <<holders, accepted, now, contentVars, pending>>

\* the codes are keyed hashes: a client submits one that was mailed, an invalid
\* string, or leaves the field out
ClientCodes == {m.code : m \in outbox} \cup {GarbageCode, AbsentCode}

Token ==
  \E req \in [username : Usernames \cup {Absent}, confirmation_code : ClientCodes] :
    LET out == TokenPost(req) IN
      /\ out.status = 200 => Len(accepted) < MaxAccepted
      /\ resp' = Resp("Token", out.status)
      /\ IF out.status = 200
         THEN /\ holders' = holders \cup {out.token.sub}
              /\ accepted' = Append(accepted, <<req.username, req.confirmation_code>>)
         ELSE UNCHANGED <<holders, accepted>>
      /\ UNCHANGED <<users, outbox, now, contentVars, pending>>

MeGet ==
  \E user \in Requesters :
    LET out == Me("GET", user, [role |-> Absent, email |-> Absent]) IN
      /\ users' = out.users
      /\ resp' = Resp("MeGet", out.status)
      /\ UNCHANGED <<holders, outbox, accepted, now, contentVars, pending>>

MePatch ==
  \E user \in Requesters, payload \in UserPayloads :
    LET out == Me("PATCH", user, payload) IN
      /\ users' = out.users
      /\ resp' = Resp("MePatch", out.status)
      /\ UNCHANGED <<holders, outbox, accepted, now, contentVars, pending>>

UserPatch ==
  \E user \in Requesters, target \in Usernames,
     payload \in [role : Roles \cup {Absent, "bogus"}, email : {Absent}] :
    LET out == UserPartialUpdate(user, target, payload) IN
      /\ users' = out.users
      /\ resp' = Resp("UserPatch", out.status)
      /\ UNCHANGED <<holders, outbox, accepted, now, contentVars, pending>>

Tick ==
  /\ now < MaxTime
  /\ now' = now + 1
  /\ resp' = resp
  /\ UNCHANGED <<users, holders, outbox, accepted, contentVars, pending>>

\* a fresh deployment: the superuser exists and holds a token, nothing else is stored
InitAuth ==
  /\ users = [u \in {"admin"} |-> [email |-> "a@x", role |-> "admin", is_active |-> TRUE]]
  /\ holders = {"admin"}
  /\ outbox = {}
  /\ accepted = <<>>
  /\ now = 0
  /\ titles = {} /\ nextTitle = 1
  /\ reviews = {} /\ nextReview = 1
  /\ comments = {} /\ nextComment = 1
  /\ pending = {}
  /\ resp = Resp("none", 0)

NextAuth == SignUp \/ Token \/ MeGet \/ MePatch \/ UserPatch \/ Tick

SpecAuth == InitAuth /\ [][NextAuth]_vars

----------------------------------------------------------------------------
(* Permissions of the content viewsets *)

\* rest_framework's permission_denied: 401 without credentials, 403 with them
Denied(user) == IF IsAuthenticated(user) THEN 403 ELSE 401

IsSafe(method) == method = "GET"

\* IsAuthenticatedOrReadOnly.has_permission
IsAuthenticatedOrReadOnly(method, user) == IsSafe(method) \/ IsAuthenticated(user)

\* IsAdminOrReadOnly.has_permission
IsAdminOrReadOnly(method, user) == IsSafe(method) \/ IsAdmin(user)

\* IsAdminOrAuthorOrReadOnly.has_object_permission
IsAdminOrAuthorOrReadOnly(method, user, obj) ==
  \/ IsSafe(method)
  \/ obj.author = user
  \/ (IsAuthenticated(user) /\ users[user].role \in {"admin", "moderator"})

----------------------------------------------------------------------------
(* TitleViewSet *)

TitleIds == 1..MaxTitles
ReviewIds == 1..MaxReviews
CommentIds == 1..MaxComments
Scores == {1, 4}
BadScore == 11
Texts == {"a", "b"}
BadText == ""
Null == [sum |-> 0, n |-> 0]

RECURSIVE SumScore(_)
SumScore(rs) ==
  IF rs = {} THEN 0
  ELSE LET r == CHOOSE x \in rs : TRUE IN r.score + SumScore(rs \ {r})

\* Avg over every review row, without the join on the title
RatingUnjoined(title_id) ==
  IF reviews = {} THEN Null
  ELSE [sum |-> SumScore(reviews), n |-> Cardinality(reviews)]

\* annotate(rating=Avg('reviews__score')): the mean, as the fraction sum / n, of the
\* score of the rows joined to the title; SQL AVG of no rows is NULL
Rating(title_id) ==
  LET joined == {r \in reviews : r.title = title_id} IN
    IF joined = {} THEN Null
    ELSE [sum |-> SumScore(joined), n |-> Cardinality(joined)]

\* on_delete=CASCADE from Review to Title
ReviewsAfterTitleDelete(title_id) == {r \in reviews : r.title # title_id}

\* on_delete=CASCADE from Comment to Review
CommentsAfterReviewDelete(gone) == {c \in comments : c.review \notin gone}

\* TitleViewSet.create
TitleCreate(user, payloadOk) ==
  IF ~IsAdminOrReadOnly("POST", user) THEN [status |-> Denied(user), titles |-> titles]
  ELSE IF ~payloadOk THEN [status |-> 400, titles |-> titles]
  ELSE [status |-> 201, titles |-> titles \cup {nextTitle}]

\* TitleViewSet.destroy
TitleDestroy(user, title_id) ==
  IF ~IsAdminOrReadOnly("DELETE", user)
  THEN [status |-> Denied(user), titles |-> titles, reviews |-> reviews,
        comments |-> comments]
  ELSE IF title_id \notin titles
  THEN [status |-> 404, titles |-> titles, reviews |-> reviews, comments |-> comments]
  ELSE [status |-> 204, titles |-> titles \ {title_id},
        reviews |-> ReviewsAfterTitleDelete(title_id),
        comments |-> CommentsAfterReviewDelete(
                       {r.id : r \in reviews \ ReviewsAfterTitleDelete(title_id)})]

\* TitleViewSet.retrieve
TitleRetrieve(title_id) ==
  IF title_id \notin titles THEN [status |-> 404, rating |-> Null]
  ELSE [status |-> 200, rating |-> Rating(title_id)]

\* TitleViewSet.list
TitleList == [status |-> 200, data |-> [t \in titles |-> Rating(t)]]

----------------------------------------------------------------------------
(* ReviewViewSet *)

\* requests by what the operation reads: the path, the requester, the payload
ReviewListRequests == [user : Requesters, title_id : TitleIds]
ReviewItemRequests == [user : Requesters, title_id : TitleIds, id : ReviewIds]
ReviewCreateRequests ==
  [user : Requesters, title_id : TitleIds, score : Scores \cup {BadScore}]
ReviewUpdateRequests ==
  [user : Requesters, title_id : TitleIds, id : ReviewIds, score : Scores \cup {BadScore}]

Same(status) == [status |-> status, reviews |-> reviews, comments |-> comments]

\* a queryset built by Review.objects.filter(title_id=...): never a 404
ReviewTitleFoundLax(title_id) == TRUE

\* get_object_or_404(Title, id=self.kwargs.get('title_id')) found the title
ReviewTitleFound(title_id) == title_id \in titles

\* ReviewViewSet.get_queryset, once the title is found
ReviewQueryset(title_id) == {r \in reviews : r.title = title_id}

\* ReviewSerializer.is_valid: the score is in range; on POST the author has no
\* review of this title yet
ReviewSerializerValid(method, req) ==
  /\ req.score \in Scores
  /\ method = "POST" =>
       ~\E r \in reviews : r.title = req.title_id /\ r.author = req.user

\* serializer.save(author=..., title=<the row whatever the path says>)
ReviewPerformCreateUnresolved(req) ==
  [status |-> 201,
   reviews |-> reviews \cup {[id |-> nextReview, title |-> req.title_id,
                              author |-> req.user, score |-> req.score]},
   comments |-> comments]

\* ReviewViewSet.perform_create
ReviewPerformCreate(req) ==
  IF ~ReviewTitleFound(req.title_id) THEN Same(404)
  ELSE [status |-> 201,
        reviews |-> reviews \cup {[id |-> nextReview, title |-> req.title_id,
                                   author |-> req.user, score |-> req.score]},
        comments |-> comments]

\* view permissions and is_valid of CreateModelMixin.create: 0 when both pass
ReviewCreateChecks(req) ==
  IF ~IsAuthenticatedOrReadOnly("POST", req.user) THEN Denied(req.user)
  ELSE IF ~ReviewSerializerValid("POST", req) THEN 400
  ELSE 0

\* ReviewViewSet.create
ReviewCreate(req) ==
  IF ReviewCreateChecks(req) # 0 THEN Same(ReviewCreateChecks(req))
  ELSE ReviewPerformCreate(req)

\* ReviewViewSet.list
ReviewList(req) ==
  IF ~ReviewTitleFound(req.title_id) THEN Same(404) ELSE Same(200)

\* view permissions, then get_object: 0 when the row is found and permitted
ReviewGetObject(method, req) ==
  IF ~IsAuthenticatedOrReadOnly(method, req.user) THEN Denied(req.user)
  ELSE IF ~ReviewTitleFound(req.title_id) THEN 404
  ELSE IF ~\E r \in ReviewQueryset(req.title_id) : r.id = req.id THEN 404
  ELSE IF ~IsAdminOrAuthorOrReadOnly(method, req.user,
             CHOOSE r \in ReviewQueryset(req.title_id) : r.id = req.id)
       THEN Denied(req.user)
       ELSE 0

\* ReviewViewSet.retrieve
ReviewRetrieve(req) ==
  IF ReviewGetObject("GET", req) # 0 THEN Same(ReviewGetObject("GET", req))
  ELSE Same(200)

\* ReviewViewSet.partial_update
ReviewUpdate(req) ==
  IF ReviewGetObject("PATCH", req) # 0 THEN Same(ReviewGetObject("PATCH", req))
  ELSE IF ~ReviewSerializerValid("PATCH", req) THEN Same(400)
  ELSE [status |-> 200,
        reviews |-> {IF r.id = req.id THEN [r EXCEPT !.score = req.score] ELSE r :
                       r \in reviews},
        comments |-> comments]

\* ReviewViewSet.destroy
ReviewDestroy(req) ==
  IF ReviewGetObject("DELETE", req) # 0 THEN Same(ReviewGetObject("DELETE", req))
  ELSE [status |-> 204,
        reviews |-> {r \in reviews : r.id # req.id},
        comments |-> CommentsAfterReviewDelete({req.id})]

----------------------------------------------------------------------------
(* CommentViewSet *)

CommentListRequests == [user : Requesters, title_id : TitleIds, review_id : ReviewIds]
CommentItemRequests ==
  [user : Requesters, title_id : TitleIds, review_id : ReviewIds, id : CommentIds]
CommentCreateRequests ==
  [user : Requesters, title_id : TitleIds, review_id : ReviewIds,
   text : Texts \cup {BadText}]
CommentUpdateRequests ==
  [user : Requesters, title_id : TitleIds, review_id : ReviewIds, id : CommentIds,
   text : Texts \cup {BadText}]

\* the review looked up under the title of the path
get_review_of_title(kwargs) ==
  {r \in reviews : r.id = kwargs.review_id /\ r.title = kwargs.title_id}

\* CommentViewSet.get_review: the rows get_object_or_404(Review, id=review_id) finds
get_review(kwargs) == {r \in reviews : r.id = kwargs.review_id}

\* CommentViewSet.get_queryset, once the review is found
CommentQueryset(kwargs) ==
  {c \in comments : \E r \in get_review(kwargs) : c.review = r.id}

\* CommentSerializer.is_valid: the text is not blank
CommentSerializerValid(req) == req.text \in Texts

\* CommentViewSet.perform_create
CommentPerformCreate(req) ==
  IF get_review(req) = {} THEN Same(404)
  ELSE [status |-> 201,
        reviews |-> reviews,
        comments |-> comments \cup
                       {[id |-> nextComment,
                         review |-> (CHOOSE r \in get_review(req) : TRUE).id,
                         author |-> req.user, text |-> req.text]}]

\* CommentViewSet.create
CommentCreate(req) ==
  IF ~IsAuthenticatedOrReadOnly("POST", req.user) THEN Same(Denied(req.user))
  ELSE IF ~CommentSerializerValid(req) THEN Same(400)
  ELSE CommentPerformCreate(req)

\* CommentViewSet.list
CommentList(req) == IF get_review(req) = {} THEN Same(404) ELSE Same(200)

\* view permissions, then get_object: 0 when the row is found and permitted
CommentGetObject(method, req) ==
  IF ~IsAuthenticatedOrReadOnly(method, req.user) THEN Denied(req.user)
  ELSE IF get_review(req) = {} THEN 404
  ELSE IF ~\E c \in CommentQueryset(req) : c.id = req.id THEN 404
  ELSE IF ~IsAdminOrAuthorOrReadOnly(method, req.user,
             CHOOSE c \in CommentQueryset(req) : c.id = req.id)
       THEN Denied(req.user)
       ELSE 0

\* CommentViewSet.retrieve
CommentRetrieve(req) ==
  IF CommentGetObject("GET", req) # 0 THEN Same(CommentGetObject("GET", req))
  ELSE Same(200)

\* CommentViewSet.partial_update
CommentUpdate(req) ==
  IF CommentGetObject("PATCH", req) # 0 THEN Same(CommentGetObject("PATCH", req))
  ELSE IF ~CommentSerializerValid(req) THEN Same(400)
  ELSE [status |-> 200,
        reviews |-> reviews,
        comments |-> {IF c.id = req.id THEN [c EXCEPT !.text = req.text] ELSE c :
                        c \in comments}]

\* CommentViewSet.destroy
CommentDestroy(req) ==
  IF CommentGetObject("DELETE", req) # 0 THEN Same(CommentGetObject("DELETE", req))
  ELSE [status |-> 204,
        reviews |-> reviews,
        comments |-> {c \in comments : c.id # req.id}]

----------------------------------------------------------------------------
(* Actions of the content endpoints *)

DoTitleCreate ==
  \E user \in Requesters, payloadOk \in BOOLEAN :
    LET out == TitleCreate(user, payloadOk) IN
      /\ out.status = 201 => nextTitle <= MaxTitles
      /\ titles' = out.titles
      /\ nextTitle' = IF out.status = 201 THEN nextTitle + 1 ELSE nextTitle
      /\ resp' = Resp("TitleCreate", out.status)
      /\ UNCHANGED <<authVars, reviews, nextReview, comments, nextComment, pending>>

DoTitleDestroy ==
  \E user \in Requesters, title_id \in TitleIds :
    LET out == TitleDestroy(user, title_id) IN
      /\ titles' = out.titles
      /\ reviews' = out.reviews
      /\ comments' = out.comments
      /\ resp' = Resp("TitleDestroy", out.status)
      /\ UNCHANGED <<authVars, nextTitle, nextReview, nextComment, pending>>

DoTitleRetrieve ==
  \E title_id \in TitleIds :
    /\ resp' = Resp("TitleRetrieve", TitleRetrieve(title_id).status)
    /\ UNCHANGED <<authVars, contentVars, pending>>

DoTitleList ==
  /\ resp' = Resp("TitleList", TitleList.status)
  /\ UNCHANGED <<authVars, contentVars, pending>>

\* commits the outcome of a Review or Comment view
Commit(op, out) ==
  /\ reviews' = out.reviews
  /\ comments' = out.comments
  /\ resp' = Resp(op, out.status)
  /\ UNCHANGED <<authVars, titles, nextTitle, pending>>

DoReviewList ==
  \E req \in ReviewListRequests :
    Commit("ReviewList", ReviewList(req)) /\ UNCHANGED <<nextReview, nextComment>>

DoReviewCreate ==
  \E req \in ReviewCreateRequests :
    LET out == ReviewCreate(req) IN
      /\ out.status = 201 => nextReview <= MaxReviews
      /\ Commit("ReviewCreate", out)
      /\ nextReview' = IF out.status = 201 THEN nextReview + 1 ELSE nextReview
      /\ UNCHANGED nextComment

DoReviewRetrieve ==
  \E req \in ReviewItemRequests :
    Commit("ReviewRetrieve", ReviewRetrieve(req)) /\ UNCHANGED <<nextReview, nextComment>>

DoReviewUpdate ==
  \E req \in ReviewUpdateRequests :
    Commit("ReviewUpdate", ReviewUpdate(req)) /\ UNCHANGED <<nextReview, nextComment>>

DoReviewDestroy ==
  \E req \in ReviewItemRequests :
    Commit("ReviewDestroy", ReviewDestroy(req)) /\ UNCHANGED <<nextReview, nextComment>>

DoCommentList ==
  \E req \in CommentListRequests :
    Commit("CommentList", CommentList(req)) /\ UNCHANGED <<nextReview, nextComment>>

DoCommentCreate ==
  \E req \in CommentCreateRequests :
    LET out == CommentCreate(req) IN
      /\ out.status = 201 => nextComment <= MaxComments
      /\ Commit("CommentCreate", out)
      /\ nextComment' = IF out.status = 201 THEN nextComment + 1 ELSE nextComment
      /\ UNCHANGED nextReview

DoCommentRetrieve ==
  \E req \in CommentItemRequests :
    Commit("CommentRetrieve", CommentRetrieve(req)) /\ UNCHANGED <<nextReview, nextComment>>

DoCommentUpdate ==
  \E req \in CommentUpdateRequests :
    Commit("CommentUpdate", CommentUpdate(req)) /\ UNCHANGED <<nextReview, nextComment>>

DoCommentDestroy ==
  \E req \in CommentItemRequests :
    Commit("CommentDestroy", CommentDestroy(req)) /\ UNCHANGED <<nextReview, nextComment>>

\* the accounts are in place and hold tokens; the catalogue is empty
InitContent ==
  /\ users = [u \in Usernames |->
                [email |-> "a@x", role |-> IF u = "admin" THEN "admin" ELSE "user",
                 is_active |-> TRUE]]
  /\ holders = Usernames
  /\ outbox = {}
  /\ accepted = <<>>
  /\ now = 0
  /\ titles = {} /\ nextTitle = 1
  /\ reviews = {} /\ nextReview = 1
  /\ comments = {} /\ nextComment = 1
  /\ pending = {}
  /\ resp = Resp("none", 0)

NextContent ==
  \/ DoTitleCreate \/ DoTitleDestroy \/ DoTitleRetrieve \/ DoTitleList
  \/ DoReviewList \/ DoReviewCreate \/ DoReviewRetrieve \/ DoReviewUpdate
  \/ DoReviewDestroy
  \/ DoCommentList \/ DoCommentCreate \/ DoCommentRetrieve \/ DoCommentUpdate
  \/ DoCommentDestroy

Spec == InitContent /\ [][NextContent]_vars

----------------------------------------------------------------------------
(* Two create-review requests in flight: each runs is_valid, then perform_create, *)
(* with other requests in between                                               *)

\* CreateModelMixin.create up to and including is_valid
ReviewCreateBegin ==
  \E req \in ReviewCreateRequests :
    /\ Cardinality(pending) < MaxPending
    /\ req \notin pending
    /\ IF ReviewCreateChecks(req) # 0
       THEN /\ resp' = Resp("ReviewCreate", ReviewCreateChecks(req))
            /\ UNCHANGED pending
       ELSE /\ pending' = pending \cup {req}
            /\ resp' = Resp("ReviewCreateValid", 0)
    /\ UNCHANGED <<authVars, contentVars>>

\* perform_create and the response of a request that passed is_valid
ReviewCreateFinish ==
  \E req \in pending :
    LET out == ReviewPerformCreate(req) IN
      /\ out.status = 201 => nextReview <= MaxReviews
      /\ pending' = pending \ {req}
      /\ reviews' = out.reviews
      /\ nextReview' = IF out.status = 201 THEN nextReview + 1 ELSE nextReview
      /\ resp' = Resp("ReviewCreate", out.status)
      /\ UNCHANGED <<authVars, titles, nextTitle, comments, nextComment>>

NextRace ==
  \/ ReviewCreateBegin \/ ReviewCreateFinish \/ DoTitleCreate \/ DoTitleDestroy
  \/ DoReviewDestroy

SpecRace == InitContent /\ [][NextRace]_vars

----------------------------------------------------------------------------
(* Properties.  A property of "every request" is stated over every request  *)
(* the view can receive in the current state: the view's outcome for it.    *)

UserStored(username) == username \in DOMAIN users

\* C1 (as claimed): for every token request that names a username, an unknown
\* username is answered 404, a known user with a code that does not validate is
\* answered 400, neither carries a token, and a token is issued only when the code
\* validates for that user.
C1_TokenOnlyWhenCodeValidates ==
  \A req \in TokenRequests :
    req.username # Absent =>
      /\ ~UserStored(req.username) =>
           TokenPost(req).status = 404 /\ TokenPost(req).token = NoToken
      /\ (UserStored(req.username)
            /\ ~check_token(req.username, req.confirmation_code)) =>
           TokenPost(req).status = 400 /\ TokenPost(req).token = NoToken
      /\ TokenPost(req).token # NoToken =>
           UserStored(req.username)
             /\ check_token(req.username, req.confirmation_code)

\* C1 (amended): the 404 for an unknown username is given to requests whose
\* payload passes TokenSerializer validation; a payload that fails it is answered
\* 400 without a token, whatever the username.  The rest is as claimed.
C1_TokenOnlyWhenCodeValidates_Amended ==
  \A req \in TokenRequests :
    /\ ~TokenSerializerValid(req) =>
         TokenPost(req).status = 400 /\ TokenPost(req).token = NoToken
    /\ (TokenSerializerValid(req) /\ ~UserStored(req.username)) =>
         TokenPost(req).status = 404 /\ TokenPost(req).token = NoToken
    /\ (UserStored(req.username)
          /\ ~check_token(req.username, req.confirmation_code)) =>
         TokenPost(req).status = 400 /\ TokenPost(req).token = NoToken
    /\ TokenPost(req).token # NoToken =>
         /\ TokenPost(req).status = 200
         /\ TokenPost(req).token = [sub |-> req.username]
         /\ UserStored(req.username)
         /\ check_token(req.username, req.confirmation_code)

\* a token was issued to alice for the code she was mailed, and an unknown or
\* badly coded request is still possible
C1_Witness ==
  /\ resp = Resp("Token", 200)
  /\ \E i \in 1..Len(accepted) :
       accepted[i][1] = "alice" /\ [to |-> accepted[i][2].email,
                                    code |-> accepted[i][2]] \in outbox

\* C2: a confirmation code is accepted at most once: no <<username, code>> pair
\* occurs twice in the history of accepted token requests.
C2_CodeIsOneTime ==
  \A i, j \in 1..Len(accepted) : accepted[i] = accepted[j] => i = j

\* C3: a signup answered 200 has, in this request and in this order, stored the
\* user and mailed a code made for that user to that user's address; when the
\* mail cannot be sent there is no 200.
C3_SignupStoresThenMails ==
  \A req \in SignUpRequests, mailOk \in BOOLEAN :
    LET out == SignUpPost(req, mailOk) IN
      /\ out.status = 200 =>
           /\ mailOk
           /\ Len(out.events) >= 2
           /\ out.events[1] = "save" /\ out.events[2] = "send"
           /\ req.username \in DOMAIN out.users
           /\ out.users[req.username].email = req.email
           /\ \E m \in out.outbox \ outbox :
                /\ m.to = req.email
                /\ m.code.uid = req.username
                /\ m.code = [uid |-> req.username, email |-> req.email, ts |-> now]
      /\ out.outbox = outbox => out.status # 200

\* alice signed up and was answered 200: she is stored and her code is in the mail
C3_Witness ==
  /\ resp = Resp("SignUp", 200)
  /\ UserStored("alice")
  /\ \E m \in outbox : m.code.uid = "alice"

ParentTitleMissing(req) == req.title_id \notin titles
ParentReviewMissing(req) == ~\E r \in reviews : r.id = req.review_id
Untouched(out) == out.reviews = reviews /\ out.comments = comments

ReviewOutcomes(req) ==
  {ReviewList(req), ReviewCreate(req), ReviewRetrieve(req), ReviewUpdate(req),
   ReviewDestroy(req)}

CommentOutcomes(req) ==
  {CommentList(req), CommentCreate(req), CommentRetrieve(req), CommentUpdate(req),
   CommentDestroy(req)}

\* C4 (as claimed): every Review operation on a title_id that names no Title and
\* every Comment operation on a review_id that names no Review is answered 404
\* and leaves the reviews and comments as they were.
C4_MissingParentIsNotFound ==
  /\ \A req \in ReviewUpdateRequests :
       ParentTitleMissing(req) =>
         \A out \in ReviewOutcomes(req) : out.status = 404 /\ Untouched(out)
  /\ \A req \in CommentUpdateRequests :
       ParentReviewMissing(req) =>
         \A out \in CommentOutcomes(req) : out.status = 404 /\ Untouched(out)

\* what the request cycle answers before the parent is resolved
EarlierRejection(method, req, payloadOk) ==
  IF method # "GET" /\ req.user \notin holders THEN 401
  ELSE IF method = "POST" /\ ~payloadOk THEN 400
  ELSE 404

\* C4 (amended): with the parent missing nothing is created, changed or removed,
\* and the answer is 404 unless an earlier check of the request cycle rejected
\* the request: 401 for a create, update or delete without credentials, 400 for
\* an authenticated create whose payload is invalid.
C4_MissingParentIsNotFound_Amended ==
  /\ \A req \in ReviewUpdateRequests :
       ParentTitleMissing(req) =>
         /\ \A out \in ReviewOutcomes(req) : Untouched(out)
         /\ ReviewList(req).status = 404
         /\ ReviewRetrieve(req).status = 404
         /\ ReviewCreate(req).status = EarlierRejection("POST", req, req.score \in Scores)
         /\ ReviewUpdate(req).status = EarlierRejection("PATCH", req, req.score \in Scores)
         /\ ReviewDestroy(req).status = EarlierRejection("DELETE", req, TRUE)
  /\ \A req \in CommentUpdateRequests :
       ParentReviewMissing(req) =>
         /\ \A out \in CommentOutcomes(req) : Untouched(out)
         /\ CommentList(req).status = 404
         /\ CommentRetrieve(req).status = 404
         /\ CommentCreate(req).status = EarlierRejection("POST", req, req.text \in Texts)
         /\ CommentUpdate(req).status = EarlierRejection("PATCH", req, req.text \in Texts)
         /\ CommentDestroy(req).status = EarlierRejection("DELETE", req, TRUE)

\* a create was answered 404 while a title that had a review is gone
C4_Witness ==
  /\ resp.status = 404
  /\ resp.op \in {"ReviewCreate", "CommentCreate"}
  /\ titles = {} /\ nextTitle > 1 /\ nextReview > 1

Attached(title_id) == {r \in reviews : r.title = title_id}

\* the mean of the attached scores as the fraction sum / n, counted score by score
MeanOfAttached(title_id) ==
  IF Attached(title_id) = {} THEN Null
  ELSE [sum |-> LET cnt(s) == Cardinality({r \in Attached(title_id) : r.score = s})
                IN 1 * cnt(1) + 4 * cnt(4),
        n |-> Cardinality(Attached(title_id))]

\* C5: the rating TitleViewSet reports for a title is the arithmetic mean of the
\* scores of exactly the reviews attached to it, and null when it has none.
C5_RatingIsMeanOfOwnReviews ==
  \A t \in titles :
    /\ TitleRetrieve(t).status = 200
    /\ TitleRetrieve(t).rating = MeanOfAttached(t)
    /\ TitleList.data[t] = MeanOfAttached(t)
    /\ (TitleRetrieve(t).rating = Null) <=> (Attached(t) = {})

\* one title has a review, the other has none (or another score), and the
\* ratings were just listed
C5_Witness ==
  /\ resp.op \in {"TitleRetrieve", "TitleList"} /\ resp.status = 200
  /\ \E t1, t2 \in titles :
       /\ t1 # t2
       /\ Attached(t1) # {}
       /\ Rating(t1) # Rating(t2)

\* C6: every stored review references a stored title and a stored author, every
\* stored comment a stored review and a stored author; a created review
\* (comment) references the title (review) of the path and has the requester as
\* author; deleting a title leaves none of its reviews nor their comments.
C6_References ==
  /\ \A r \in reviews : r.title \in titles /\ UserStored(r.author)
  /\ \A c \in comments : (\E r \in reviews : r.id = c.review) /\ UserStored(c.author)
  /\ \A req \in ReviewCreateRequests :
       \A r \in ReviewCreate(req).reviews \ reviews :
         r.title = req.title_id /\ r.title \in titles /\ r.author = req.user
  /\ \A req \in CommentCreateRequests :
       \A c \in CommentCreate(req).comments \ comments :
         /\ c.review = req.review_id
         /\ \E r \in reviews : r.id = c.review
         /\ c.author = req.user
  /\ \A user \in Requesters, t \in TitleIds :
       LET out == TitleDestroy(user, t) IN
         out.status = 204 =>
           /\ t \notin out.titles
           /\ \A r \in out.reviews : r.title # t /\ r.title \in out.titles
           /\ \A c \in out.comments : \E r \in out.reviews : r.id = c.review

\* a review by one user carries a comment by another
C6_Witness ==
  \E r \in reviews, c \in comments : c.review = r.id /\ c.author # r.author

\* C7: there is at most one review for any (author, title) pair.
C7_OneReviewPerAuthorAndTitle ==
  \A r1, r2 \in reviews :
    (r1.author = r2.author /\ r1.title = r2.title) => r1 = r2

\* C8: a PATCH to me, whatever its payload, leaves the role of the requester and
\* the whole record of every other user as they were; a GET changes nothing.
C8_MeKeepsRole ==
  \A user \in Requesters, payload \in UserPayloads :
    /\ Me("GET", user, payload).users = users
    /\ DOMAIN Me("PATCH", user, payload).users = DOMAIN users
    /\ \A u \in DOMAIN users :
         /\ Me("PATCH", user, payload).users[u].role = users[u].role
         /\ u # user => Me("PATCH", user, payload).users[u] = users[u]

\* alice changed her e-mail by a PATCH to me and is still a plain user
C8_Witness ==
  /\ resp = Resp("MePatch", 200)
  /\ UserStored("alice")
  /\ users["alice"].role = "user"
  /\ \E m \in outbox : m.code.uid = "alice" /\ m.to # users["alice"].email

\* C9: two comment requests that differ in the path title_id only have the same
\* outcome: the same status and the same reviews and comments afterwards.
C9_CommentsIgnoreTitleId ==
  \A req \in CommentUpdateRequests, t \in TitleIds :
    /\ CommentList([req EXCEPT !.title_id = t]) = CommentList(req)
    /\ CommentCreate([req EXCEPT !.title_id = t]) = CommentCreate(req)
    /\ CommentRetrieve([req EXCEPT !.title_id = t]) = CommentRetrieve(req)
    /\ CommentUpdate([req EXCEPT !.title_id = t]) = CommentUpdate(req)
    /\ CommentDestroy([req EXCEPT !.title_id = t]) = CommentDestroy(req)

\* a comment was created under a review while another title than the review's
\* own is stored
C9_Witness ==
  /\ resp = Resp("CommentCreate", 201)
  /\ \E c \in comments, r \in reviews, t \in titles : c.review = r.id /\ t # r.title

\* C10: a signup request removes no user: every stored user is still stored
\* after it, the cleanup never runs, and the user a valid request saves stays
\* stored whether or not the mail was sent.
C10_SignupNeverRemovesUser ==
  \A req \in SignUpRequests, mailOk \in BOOLEAN :
    LET out == SignUpPost(req, mailOk) IN
      /\ \A u \in DOMAIN users : u \in DOMAIN out.users /\ out.users[u] = users[u]
      /\ \A i \in 1..Len(out.events) : out.events[i] # "delete"
      /\ SignUpSerializerValid(req) => req.username \in DOMAIN out.users

\* alice's signup failed to send the mail, and she is stored
C10_Witness ==
  /\ resp = Resp("SignUp", 500)
  /\ UserStored("alice")
  /\ ~\E m \in outbox : m.code.uid = "alice"

====
